---------------------------- MODULE Spec2Model ----------------------------
(***************************************************************************)
(* Model of the xiaomi_miot_raw light and sensor platforms                 *)
(* (custom_components/xiaomi_miot_raw/light.py and sensor.py).             *)
(*                                                                         *)
(* Encoding of Python values:                                              *)
(*   - an optional value is a sequence of length at most one: None is <<>> *)
(*     and a value v is <<v>>;                                             *)
(*   - a dict is a function whose DOMAIN is the set of keys present;       *)
(*   - sensor readings are carried as integer thousandths, so that         *)
(*     round(x, 3) is exact: the raw integer 7 is 7000, 0.7 is 700.        *)
(***************************************************************************)
EXTENDS Integers, Sequences, FiniteSets, TLC

VARIABLES
    light,      \* the MiotLight entity: its fields and its configuration
    light_io,   \* the last light handler: its inputs, device call, response, outcome
    sensor,     \* the MiotSensor entity: its fields and its configuration
    sensor_io,  \* the last sensor poll: the response batch and the outcome
    hass,       \* hass.data[DATA_KEY] of both platforms and the entities added
    setup_io,   \* the last async_setup_platform call: inputs and outcome
    conv        \* a brightness value on its way UI -> device -> UI

vars == <<light, light_io, sensor, sensor_io, hass, setup_io, conv>>

---------------------------------------------------------------------------
(* Python values *)

None == <<>>

Some(v) == <<v>>

\* dict.get(k): the value under k, None when k is absent
Get(d, k) == IF k \in DOMAIN d THEN d[k] ELSE None

\* dict.update(e): e's entries replace or extend d's
Update(d, e) ==
    [k \in (DOMAIN d) \cup (DOMAIN e) |-> IF k \in DOMAIN e THEN e[k] ELSE d[k]]

EmptyDict == [k \in {} |-> None]

Abs(x) == IF x < 0 THEN -x ELSE x

\* floor(n / d) for d > 0
FloorDiv(n, d) == n \div d

\* Python 3 round(n / d) for n >= 0, d > 0: to the nearest integer, ties to even
RoundDiv(n, d) ==
    LET q == n \div d
        r == n % d
    IN  IF 2 * r > d THEN q + 1
        ELSE IF 2 * r < d THEN q
        ELSE IF q % 2 = 0 THEN q ELSE q + 1

---------------------------------------------------------------------------
(* Light: unit conversions *)

\* the UI brightness scale, round(value/255*100)
UIMax == 255

Percent == 100

\* color.color_temperature_mired_to_kelvin, as called by async_turn_on
color_temperature_mired_to_kelvin(mired) == FloorDiv(1000000, mired)

\* color.color_temperature_kelvin_to_mired, as called by async_update
color_temperature_kelvin_to_mired(kelvin) == FloorDiv(1000000, kelvin)

\* MiotLight.convert_value(value, param, dir) for the value range of param.
\* The divisions are taken exactly; int() truncates a non-negative quotient.
convert_value(value, valuerange, dir) ==
    LET width == valuerange[2] - valuerange[1] + 1
    IN  IF dir
        THEN LET slider_value == RoundDiv(value * Percent, UIMax)
             IN  FloorDiv(slider_value * width, Percent * valuerange[3]) * valuerange[3]
        ELSE RoundDiv(value * UIMax, width)

\* a plausible slip: clamping only from below
ClampKelvin_NoUpper(ct, valuerange) ==
    IF ct < valuerange[1] THEN valuerange[1] ELSE ct

\* async_turn_on: ct = lo if ct < lo else hi if ct > hi else ct
ClampKelvin(ct, valuerange) ==
    IF ct < valuerange[1] THEN valuerange[1]
    ELSE IF ct > valuerange[2] THEN valuerange[2]
    ELSE ct

\* The mode table ctrl_params['mode'] is an insertion-ordered dict, carried as
\* the sequence of its <<code, label>> items.
ModeKeys(modes) == [i \in 1..Len(modes) |-> modes[i][1]]

ModeValues(modes) == [i \in 1..Len(modes) |-> modes[i][2]]

ModeCodes(modes) == {modes[i][1] : i \in 1..Len(modes)}

\* modes[code], for a code of the table
ModeLabel(modes, code) == modes[CHOOSE i \in 1..Len(modes) : modes[i][1] = code][2]

\* list.index(x): the first position holding x
ListIndex(seq, x) ==
    CHOOSE i \in 1..Len(seq) : seq[i] = x /\ \A j \in 1..(i-1) : seq[j] # x

\* a plausible slip: the position after the one holding x, wrapping around
EffectCode_Shifted(modes, label) ==
    ModeKeys(modes)[(ListIndex(ModeValues(modes), label) % Len(modes)) + 1]

\* async_turn_on: list(modes.keys())[list(modes.values()).index(effect)]
EffectCode(modes, label) ==
    ModeKeys(modes)[ListIndex(ModeValues(modes), label)]

\* effect_list: list(modes.values())
effect_list(modes) == {modes[i][2] : i \in 1..Len(modes)}

---------------------------------------------------------------------------
(* Light: configurations and inputs drawn by the model *)

\* ctrl_params['mode'] tables; the second gives two codes the same label
ModeTables ==
    { << <<0, "Day">>, <<1, "Night">> >>,
      << <<0, "Day">>, <<1, "Day">> >> }

\* ctrl_params['brightness']['value_range'] of the light entity
LightBrightnessRanges == { <<1, 100, 1>> }

\* ctrl_params['color_temperature']['value_range'], in Kelvin
ColorTempRanges == { <<2700, 6500, 1>> }

\* color temperatures the UI asks for, in mired: above, inside and below the
\* device range once converted to Kelvin
Mireds == {100, 200, 400}

\* brightness the UI asks for
UIBrightness == {128}

\* values the device reports
DeviceSwitch == {0, 1, 2}

DeviceBrightness == {1, 100}

DeviceKelvin == {6500}

DeviceModes == {0, 1, 2}

\* one result per mapping key; <<>> is a result that carries no 'value'.  Of
\* the responses without a switch_status value, which all end the poll the
\* same way, two are drawn.
LightResponses ==
    { [switch_status |-> Some(sw), brightness |-> br, color_temperature |-> ct, mode |-> md] :
        sw \in DeviceSwitch,
        br \in {None} \cup {Some(v) : v \in DeviceBrightness},
        ct \in {None} \cup {Some(v) : v \in DeviceKelvin},
        md \in {None} \cup {Some(v) : v \in DeviceModes} }
    \cup
    { [switch_status |-> None, brightness |-> br, color_temperature |-> None, mode |-> None] :
        br \in {None} \cup {Some(v) : v \in DeviceBrightness \cap {100}} }

\* the keyword arguments of a turn-on service call: an effect alone, an effect
\* with the other two, or any of brightness and color temperature
TurnOnKwargs(modes) ==
    { [effect |-> Some(l), brightness |-> None, color_temp |-> None] :
        l \in effect_list(modes) }
    \cup
    { [effect |-> Some(l), brightness |-> Some(b), color_temp |-> Some(c)] :
        l \in {"Day"} \cap effect_list(modes), b \in UIBrightness, c \in {200} \cap Mireds }
    \cup
    { [effect |-> None, brightness |-> b, color_temp |-> c] :
        b \in {None} \cup {Some(v) : v \in UIBrightness},
        c \in {None} \cup {Some(m) : m \in Mireds} }

NoKwargs == [effect |-> None, brightness |-> None, color_temp |-> None]

NoParameters ==
    [switch_status |-> None, mode |-> None, brightness |-> None, color_temperature |-> None]

\* ToggleableMiotDevice._try_command: the command succeeded (a true result),
\* or it failed (a false result: the device refused it or the library raised
\* DeviceException, after which the entity may or may not be unavailable)
TryCommandOutcomes == {"ok", "failed"}

---------------------------------------------------------------------------
(* Light: the entity *)

\* GenericMiotDevice.__init__, the base of both entities: nothing is cached,
\* the entity is not yet available, no flag is raised
GenericMiotDevice_init ==
    [ state |-> None,
      available |-> FALSE,
      assumed_state |-> FALSE,
      state_attrs |-> EmptyDict,
      skip_update |-> FALSE ]

\* MiotLight.__init__ after ToggleableMiotDevice.__init__, with the
\* configuration the entity is built from
MiotLight_init(update_instant, ctrl_params) ==
    [ brightness |-> None,
      color_temp |-> None,
      effect |-> None,
      update_instant |-> update_instant,
      ctrl_params |-> ctrl_params ] @@ GenericMiotDevice_init

\* async_turn_on: the parameters list, as did -> value (<<>>: did not sent)
TurnOnParameters(l, kwargs) ==
    LET p == l.ctrl_params
        base == [NoParameters EXCEPT !.switch_status = Some(p.switch_status.power_on)]
    IN  IF kwargs.effect # None
        THEN [base EXCEPT !.mode = Some(EffectCode(p.mode, kwargs.effect[1]))]
        ELSE [base EXCEPT
                !.brightness =
                    IF kwargs.brightness # None
                    THEN Some(convert_value(kwargs.brightness[1], p.brightness.value_range, TRUE))
                    ELSE None,
                !.color_temperature =
                    IF kwargs.color_temp # None
                    THEN Some(ClampKelvin(
                            color_temperature_mired_to_kelvin(kwargs.color_temp[1]),
                            p.color_temperature.value_range))
                    ELSE None]

\* async_turn_on: self._effect = None when brightness or color temperature is
\* asked for without an effect
TurnOnEffect(l, kwargs) ==
    IF kwargs.effect = None /\ (kwargs.brightness # None \/ kwargs.color_temp # None)
    THEN None
    ELSE l.effect

\* async_turn_on: if result: self._state = True; self._skip_update = True
TurnOnResult(l, result) ==
    IF result THEN [l EXCEPT !.state = Some(TRUE), !.skip_update = TRUE] ELSE l

\* the behaviour follows the light entity
LightExists == light_io.op # "idle"

\* MiotLight.async_turn_on(**kwargs), with the outcome of _try_command
async_turn_on ==
    \E kwargs \in TurnOnKwargs(light.ctrl_params.mode), outcome \in TryCommandOutcomes,
       avail \in BOOLEAN :
        /\ LightExists
        /\ avail \in (IF outcome = "failed" THEN {light.available, FALSE}
                      ELSE {light.available})
        /\ light' = TurnOnResult(
                        [light EXCEPT !.effect = TurnOnEffect(light, kwargs),
                                      !.available = avail],
                        outcome = "ok")
        /\ light_io' = [ op |-> "async_turn_on",
                         kwargs |-> kwargs,
                         call |-> Some("set_properties"),
                         parameters |-> TurnOnParameters(light, kwargs),
                         response |-> None,
                         outcome |-> outcome ]
        /\ UNCHANGED <<sensor, sensor_io, hass, setup_io, conv>>

\* async_update: statedict[r['did']] = r['value'], skipping results without a value
LightStatedict(response) ==
    [k \in {d \in DOMAIN response : response[d] # None} |-> response[k][1]]

\* a plausible slip: the skip flag is left raised
LightSkip_Keep(l) == l

\* async_update: self._skip_update = False; return
LightSkip(l) == [l EXCEPT !.skip_update = FALSE]

\* a plausible slip: the cached values are cleared with the availability
LightDeviceException_Clear(l) ==
    [l EXCEPT !.available = FALSE, !.state = None, !.brightness = None]

\* async_update: except DeviceException: self._available = False
LightDeviceException(l) == [l EXCEPT !.available = FALSE]

\* a plausible slip: a missing key resets the brightness
PollBrightness_Reset(l, statedict) ==
    IF "brightness" \in DOMAIN statedict
    THEN Some(convert_value(statedict["brightness"],
                            l.ctrl_params.brightness.value_range, FALSE))
    ELSE None

\* async_update: try: self._brightness = convert_value(...) except KeyError: pass
PollBrightness(l, statedict) ==
    IF "brightness" \in DOMAIN statedict
    THEN Some(convert_value(statedict["brightness"],
                            l.ctrl_params.brightness.value_range, FALSE))
    ELSE l.brightness

\* async_update: try: self._color_temp = kelvin_to_mired(...) except KeyError: pass
PollColorTemp(l, statedict) ==
    IF "color_temperature" \in DOMAIN statedict
    THEN Some(color_temperature_kelvin_to_mired(statedict["color_temperature"]))
    ELSE l.color_temp

\* async_update: try: self._effect = modes[statedict['mode']]
\*               except KeyError: self._effect = None
PollEffect(l, statedict) ==
    IF "mode" \in DOMAIN statedict /\ statedict["mode"] \in ModeCodes(l.ctrl_params.mode)
    THEN Some(ModeLabel(l.ctrl_params.mode, statedict["mode"]))
    ELSE None

\* async_update: the three self._state_attrs.update calls
PollStateAttrs(l, statedict) ==
    LET attrs1 == Update(l.state_attrs, [k \in {"state_value"} |-> statedict["switch_status"]])
        attrs2 == IF "color_temperature" \in DOMAIN statedict
                  THEN Update(attrs1, [k \in {"color_temperature"} |->
                                          statedict["color_temperature"]])
                  ELSE attrs1
    IN  IF "mode" \in DOMAIN statedict
        THEN Update(attrs2, [k \in {"effect"} |-> statedict["mode"]])
        ELSE attrs2

\* async_update: the on/off state from the switch_status value
PollState(l, state) ==
    IF state = l.ctrl_params.switch_status.power_on THEN Some(TRUE)
    ELSE IF state = l.ctrl_params.switch_status.power_off THEN Some(FALSE)
    ELSE None

\* async_update, from self._available = True to the last try/except
LightApply(l, statedict) ==
    [l EXCEPT
        !.available = TRUE,
        !.state = PollState(l, statedict["switch_status"]),
        !.state_attrs = PollStateAttrs(l, statedict),
        !.brightness = PollBrightness(l, statedict),
        !.color_temp = PollColorTemp(l, statedict),
        !.effect = PollEffect(l, statedict)]

\* what a poll leaves in light_io
LightPollIo(call, response, outcome) ==
    [ op |-> "async_update",
      kwargs |-> NoKwargs,
      call |-> call,
      parameters |-> NoParameters,
      response |-> response,
      outcome |-> outcome ]

\* MiotLight.async_update: a poll the skip flag suppresses
MiotLight_async_update_skip ==
    /\ LightExists
    /\ light.update_instant = FALSE /\ light.skip_update
    /\ light' = LightSkip(light)
    /\ light_io' = LightPollIo(None, None, "skipped")
    /\ UNCHANGED <<sensor, sensor_io, hass, setup_io, conv>>

\* MiotLight.async_update: get_properties_for_mapping raises DeviceException
MiotLight_async_update_fail ==
    /\ LightExists
    /\ ~(light.update_instant = FALSE /\ light.skip_update)
    /\ light' = LightDeviceException(light)
    /\ light_io' = LightPollIo(Some("get_properties_for_mapping"), None, "DeviceException")
    /\ UNCHANGED <<sensor, sensor_io, hass, setup_io, conv>>

\* MiotLight.async_update: the device answers (statedict['switch_status'] raises
\* KeyError, which async_update does not catch, when that result has no value)
MiotLight_async_update_ok ==
    \E response \in LightResponses :
        /\ LightExists
        /\ ~(light.update_instant = FALSE /\ light.skip_update)
        /\ LET statedict == LightStatedict(response)
           IN  IF "switch_status" \in DOMAIN statedict
               THEN /\ light' = LightApply(light, statedict)
                    /\ light_io' = LightPollIo(Some("get_properties_for_mapping"),
                                               Some(response), "ok")
               ELSE /\ light' = light
                    /\ light_io' = LightPollIo(Some("get_properties_for_mapping"),
                                               Some(response), "KeyError")
        /\ UNCHANGED <<sensor, sensor_io, hass, setup_io, conv>>

LightConfigs ==
    { [ switch_status |-> [power_on |-> 1, power_off |-> 0],
        brightness |-> [value_range |-> br],
        color_temperature |-> [value_range |-> cr],
        mode |-> m ] :
        br \in LightBrightnessRanges, cr \in ColorTempRanges, m \in ModeTables }

LightIoInit ==
    [ op |-> "__init__", kwargs |-> NoKwargs, call |-> None, parameters |-> NoParameters,
      response |-> None, outcome |-> "ok" ]

---------------------------------------------------------------------------
(* Sensor: configurations and inputs drawn by the model *)

\* raw readings the device reports: 0..MaxRaw
MaxRaw == 2

\* the codes of a property result: success, "no state reported", another failure
ResultCodes == {0, -4004, -4001}

\* config mapping: the logical property names, in the order of the mapping
SensorMappings == { <<>>, <<"temperature">>, <<"temperature", "humidity">> }

\* config sensor_property: absent, or a property name
SensorProperties == {None, Some("temperature"), Some("humidity")}

\* config params: did -> value_ratio as <<numerator, denominator>>
SensorCtrlParams == { EmptyDict, [k \in {"temperature"} |-> [value_ratio |-> <<1, 10>>]] }

SeqRange(seq) == {seq[i] : i \in 1..Len(seq)}

\* one result per mapping key
SensorResponses(mapping) ==
    [ SeqRange(mapping) ->
        {[code |-> 0, value |-> v] : v \in 0..MaxRaw}
        \cup {[code |-> c, value |-> 0] : c \in ResultCodes \ {0}} ]

---------------------------------------------------------------------------
(* Sensor: the entity *)

\* MiotSensor.__init__ after GenericMiotDevice.__init__
MiotSensor_init(mapping, sensor_property, ctrl_params) ==
    [ state |-> None,
      skip_update |-> FALSE,
      sensor_property |-> sensor_property,
      mapping |-> mapping,
      ctrl_params |-> ctrl_params ] @@ GenericMiotDevice_init

\* round(r['value'] * f, 3) with a value_ratio, the raw value without
SensorValue(ctrl_params, did, value) ==
    IF did \in DOMAIN ctrl_params
    THEN RoundDiv(value * ctrl_params[did].value_ratio[1] * 1000,
                  ctrl_params[did].value_ratio[2])
    ELSE value * 1000

\* a plausible slip: a failed property is left out of the batch
SensorStatedict_DropFailed(s, response) ==
    [did \in {d \in DOMAIN response : response[d].code = 0} |->
        Some(SensorValue(s.ctrl_params, did, response[did].value))]

\* async_update: the statedict built by the loop over the response
SensorStatedict(s, response) ==
    [did \in DOMAIN response |->
        IF response[did].code = 0
        THEN Some(SensorValue(s.ctrl_params, did, response[did].value))
        ELSE None]

\* async_update: count4004, the results whose code is -4004
Count4004(response) == Cardinality({did \in DOMAIN response : response[did].code = -4004})

\* a plausible slip: any -4004 result raises the flag
SensorAssumed_Any(s, response) ==
    IF Count4004(response) > 0 THEN TRUE ELSE s.assumed_state

\* async_update: if count4004 == len(response): self._assumed_state = True
SensorAssumed(s, response) ==
    IF Count4004(response) = Cardinality(DOMAIN response) THEN TRUE ELSE s.assumed_state

\* async_update, after the try block: the primary state. Without a designated
\* property, self._mapping.keys()[0] raises TypeError (a dict view cannot be
\* indexed), which the bare except turns into None.
SensorPrimaryState(s, attrs) ==
    IF s.sensor_property # None
    THEN Get(attrs, s.sensor_property[1])
    ELSE None

\* the behaviour follows the sensor entity
SensorExists == sensor_io.op # "idle"

\* MiotSensor.async_update: the device answers
MiotSensor_async_update_ok ==
    \E response \in SensorResponses(sensor.mapping) :
        /\ SensorExists
        /\ LET s1 == [sensor EXCEPT
                        !.available = TRUE,
                        !.assumed_state = SensorAssumed(sensor, response),
                        !.state_attrs = Update(@, SensorStatedict(sensor, response))]
           IN  sensor' = [s1 EXCEPT !.state = SensorPrimaryState(s1, s1.state_attrs)]
        /\ sensor_io' = [op |-> "async_update", response |-> Some(response), outcome |-> "ok"]
        /\ UNCHANGED <<light, light_io, hass, setup_io, conv>>

\* MiotSensor.async_update: get_properties_for_mapping raises DeviceException
MiotSensor_async_update_fail ==
    /\ SensorExists
    /\ LET s1 == [sensor EXCEPT !.available = FALSE]
       IN  sensor' = [s1 EXCEPT !.state = SensorPrimaryState(s1, s1.state_attrs)]
    /\ sensor_io' = [op |-> "async_update", response |-> None, outcome |-> "DeviceException"]
    /\ UNCHANGED <<light, light_io, hass, setup_io, conv>>

SensorIoInit == [op |-> "__init__", response |-> None, outcome |-> "ok"]

---------------------------------------------------------------------------
(* async_setup_platform of both platforms *)

\* the hosts of the configuration: 1..MaxHosts
MaxHosts == 2

Hosts == 1..MaxHosts

LIGHT_DATA_KEY == "light.xiaomi_miot_raw"

SENSOR_DATA_KEY == "sensor.xiaomi_miot_raw"

\* the step of the try block that raises DeviceException, if one does
SetupFailures == {"none", "MiotDevice", "info", "entity"}

\* if DATA_KEY not in hass.data: hass.data[DATA_KEY] = {}
SetupDataKey(data, key) ==
    IF key \in DOMAIN data THEN data ELSE Update(data, [k \in {key} |-> {}])

\* a plausible slip: the entity is stored before its construction is known to
\* have succeeded
SetupStore_Early(h, key, host, failure) ==
    [ data |-> [SetupDataKey(h.data, key) EXCEPT ![key] = @ \cup {host}],
      added |-> IF failure = "none" THEN h.added \cup {<<key, host>>} ELSE h.added ]

\* hass.data[DATA_KEY][host] = device; async_add_devices([device]) -- reached
\* only when the try block raised nothing
SetupStore(h, key, host, failure) ==
    IF failure = "none"
    THEN [ data |-> [SetupDataKey(h.data, key) EXCEPT ![key] = @ \cup {host}],
           added |-> h.added \cup {<<key, host>>} ]
    ELSE [ data |-> SetupDataKey(h.data, key), added |-> h.added ]

SetupIo(key, host, failure) ==
    [ key |-> key,
      host |-> Some(host),
      failure |-> failure,
      raised |-> IF failure = "none" THEN None ELSE Some("PlatformNotReady"),
      add_devices_called |-> (failure = "none") ]

\* light.async_setup_platform
light_async_setup_platform ==
    \E host \in Hosts, failure \in SetupFailures :
        /\ setup_io.key # "idle"
        /\ hass' = SetupStore(hass, LIGHT_DATA_KEY, host, failure)
        /\ setup_io' = SetupIo(LIGHT_DATA_KEY, host, failure)
        /\ UNCHANGED <<light, light_io, sensor, sensor_io, conv>>

\* sensor.async_setup_platform
sensor_async_setup_platform ==
    \E host \in Hosts, failure \in SetupFailures :
        /\ setup_io.key # "idle"
        /\ hass' = SetupStore(hass, SENSOR_DATA_KEY, host, failure)
        /\ setup_io' = SetupIo(SENSOR_DATA_KEY, host, failure)
        /\ UNCHANGED <<light, light_io, sensor, sensor_io, conv>>

HassInit == [data |-> EmptyDict, added |-> {}]

SetupIoInit ==
    [ key |-> "", host |-> None, failure |-> "none", raised |-> None,
      add_devices_called |-> FALSE ]

---------------------------------------------------------------------------
(* The brightness conversion, there and back *)

\* ctrl_params['brightness']['value_range'] values: [lo, hi, step]
ValueRanges ==
    { <<1, 100, 1>>, <<0, 100, 1>>, <<1, 255, 1>>, <<1, 100, 5>>, <<1, 10, 1>> }

\* async_turn_on: the brightness sent, convert_value(b, "brightness")
ConvertToDevice ==
    /\ conv.pc = "ui"
    /\ conv' = [conv EXCEPT !.device = Some(convert_value(conv.value, conv.valuerange, TRUE)),
                            !.pc = "device"]
    /\ UNCHANGED <<light, light_io, sensor, sensor_io, hass, setup_io>>

\* async_update: the brightness read back, convert_value(v, "brightness", False)
ConvertToUI ==
    /\ conv.pc = "device"
    /\ conv' = [conv EXCEPT !.ui = Some(convert_value(conv.device[1], conv.valuerange, FALSE)),
                            !.pc = "done"]
    /\ UNCHANGED <<light, light_io, sensor, sensor_io, hass, setup_io>>

ConvInit(value, valuerange) ==
    [value |-> value, valuerange |-> valuerange, device |-> None, ui |-> None, pc |-> "ui"]

ConvIdle ==
    [value |-> 0, valuerange |-> <<1, 100, 1>>, device |-> None, ui |-> None, pc |-> "idle"]

---------------------------------------------------------------------------
(* The specification.  The two entities, the platform setup and the        *)
(* conversion share no state, so a behaviour follows one of them: Init     *)
(* configures one and leaves the others idle.                              *)

LightIdle == MiotLight_init(TRUE, CHOOSE c \in LightConfigs : TRUE)

SensorIdle == MiotSensor_init(<<>>, None, EmptyDict)

InitLight ==
    /\ light \in {MiotLight_init(u, c) : u \in BOOLEAN, c \in LightConfigs}
    /\ light_io = [LightIoInit EXCEPT !.op = "__init__"]
    /\ sensor = SensorIdle /\ sensor_io = [SensorIoInit EXCEPT !.op = "idle"]
    /\ hass = HassInit /\ setup_io = [SetupIoInit EXCEPT !.key = "idle"]
    /\ conv = ConvIdle

InitSensor ==
    /\ light = LightIdle /\ light_io = [LightIoInit EXCEPT !.op = "idle"]
    /\ sensor \in {MiotSensor_init(m, sp, cp) :
                     m \in SensorMappings, sp \in SensorProperties, cp \in SensorCtrlParams}
    /\ sensor_io = SensorIoInit
    /\ hass = HassInit /\ setup_io = [SetupIoInit EXCEPT !.key = "idle"]
    /\ conv = ConvIdle

InitSetup ==
    /\ light = LightIdle /\ light_io = [LightIoInit EXCEPT !.op = "idle"]
    /\ sensor = SensorIdle /\ sensor_io = [SensorIoInit EXCEPT !.op = "idle"]
    /\ hass = HassInit /\ setup_io = SetupIoInit
    /\ conv = ConvIdle

InitConv ==
    /\ light = LightIdle /\ light_io = [LightIoInit EXCEPT !.op = "idle"]
    /\ sensor = SensorIdle /\ sensor_io = [SensorIoInit EXCEPT !.op = "idle"]
    /\ hass = HassInit /\ setup_io = [SetupIoInit EXCEPT !.key = "idle"]
    /\ conv \in {ConvInit(b, vr) : b \in 0..UIMax, vr \in ValueRanges}

Init == InitLight \/ InitSensor \/ InitSetup \/ InitConv

Next ==
    \/ async_turn_on
    \/ MiotLight_async_update_skip
    \/ MiotLight_async_update_fail
    \/ MiotLight_async_update_ok
    \/ MiotSensor_async_update_ok
    \/ MiotSensor_async_update_fail
    \/ light_async_setup_platform
    \/ sensor_async_setup_platform
    \/ ConvertToDevice
    \/ ConvertToUI

Spec == Init /\ [][Next]_vars

---------------------------------------------------------------------------
(* Properties *)

LightPollFailed == light_io.op = "async_update" /\ light_io.outcome = "DeviceException"

LightPollOk == light_io.op = "async_update" /\ light_io.outcome = "ok"

SensorPollFailed == sensor_io.op = "async_update" /\ sensor_io.outcome = "DeviceException"

SensorPollOk == sensor_io.op = "async_update" /\ sensor_io.outcome = "ok"

\* C1: a poll in which the device library raises DeviceException clears the
\* availability flag and leaves every cached value of the entity (light: on/off
\* state, brightness, color temperature, effect, state attributes; sensor:
\* primary state, state attributes, assumed-state flag) as it was before the
\* poll, whatever polls came before.
C1_FailedPollKeepsCache ==
    [][ /\ LightPollFailed' =>
            /\ light'.available = FALSE
            /\ light'.state = light.state
            /\ light'.brightness = light.brightness
            /\ light'.color_temp = light.color_temp
            /\ light'.effect = light.effect
            /\ light'.state_attrs = light.state_attrs
        /\ SensorPollFailed' =>
            /\ sensor'.available = FALSE
            /\ sensor'.state = sensor.state
            /\ sensor'.state_attrs = sensor.state_attrs
            /\ sensor'.assumed_state = sensor.assumed_state ]_vars

\* a failed light poll after a successful one: the cache is filled, the entity
\* unavailable
C1_Witness ==
    /\ LightPollFailed
    /\ light.available = FALSE
    /\ light.state = Some(TRUE)
    /\ light.brightness # None
    /\ light.color_temp # None
    /\ light.effect # None
    /\ "state_value" \in DOMAIN light.state_attrs

\* the hosts stored under a DATA_KEY, none when the key is absent
Stored(data, key) == IF key \in DOMAIN data THEN data[key] ELSE {}

DataKeys == {LIGHT_DATA_KEY, SENSOR_DATA_KEY}

\* C2: a setup in which creating the device handle, fetching the device info or
\* constructing the entity raises DeviceException raises PlatformNotReady,
\* stores no entity in hass.data[DATA_KEY] and does not call async_add_devices;
\* a setup stores and adds its entity exactly when all three steps succeeded.
C2_FailedSetupRegistersNothing ==
    [][ setup_io'.key \in DataKeys =>
          /\ setup_io'.failure # "none" =>
                /\ setup_io'.raised = Some("PlatformNotReady")
                /\ ~setup_io'.add_devices_called
                /\ hass'.added = hass.added
                /\ \A key \in DataKeys : Stored(hass'.data, key) = Stored(hass.data, key)
          /\ setup_io'.failure = "none" =>
                /\ setup_io'.raised = None
                /\ setup_io'.add_devices_called
                /\ setup_io'.host[1] \in Stored(hass'.data, setup_io'.key)
                /\ <<setup_io'.key, setup_io'.host[1]>> \in hass'.added
          /\ \A key \in DataKeys, host \in Hosts :
                host \in Stored(hass'.data, key) <=> <<key, host>> \in hass'.added ]_vars

\* a light setup failed while constructing the entity: nothing is stored for
\* its host, although the platform's dict exists and holds another host
C2_Witness ==
    /\ setup_io.key = LIGHT_DATA_KEY
    /\ setup_io.failure = "entity"
    /\ setup_io.raised = Some("PlatformNotReady")
    /\ LIGHT_DATA_KEY \in DOMAIN hass.data
    /\ setup_io.host[1] \notin hass.data[LIGHT_DATA_KEY]
    /\ hass.data[LIGHT_DATA_KEY] # {}

\* every property of the device failed with code -4004 in the batch
AllFailed4004(mapping, response) ==
    \A i \in 1..Len(mapping) : response[mapping[i]].code = -4004

\* C3: a sensor poll sets the assumed-state flag if and only if every property
\* of the device failed with -4004 in the fetched batch; any other batch leaves
\* the flag as it was.
C3_AssumedStateIffAll4004 ==
    [][ SensorPollOk' =>
          IF AllFailed4004(sensor.mapping, sensor_io'.response[1])
          THEN sensor'.assumed_state = TRUE
          ELSE sensor'.assumed_state = sensor.assumed_state ]_vars

\* both properties of a two-property sensor failed with -4004: the flag is set
C3_Witness ==
    /\ SensorPollOk
    /\ Len(sensor.mapping) = 2
    /\ AllFailed4004(sensor.mapping, sensor_io.response[1])
    /\ sensor.assumed_state = TRUE

\* C4: after a sensor poll the device answered, every property whose result has
\* a non-zero code is in the state attributes with a null value (whatever was
\* cached for it before), every property with code 0 is there with its value,
\* and the entity is available.
C4_FailedPropertyIsNull ==
    SensorPollOk =>
        /\ sensor.available = TRUE
        /\ \A did \in DOMAIN sensor_io.response[1] :
            LET r == sensor_io.response[1][did]
            IN  /\ did \in DOMAIN sensor.state_attrs
                /\ r.code # 0 => sensor.state_attrs[did] = None
                /\ r.code = 0 =>
                     sensor.state_attrs[did] = Some(SensorValue(sensor.ctrl_params, did, r.value))

\* one property failed and is null, the other was fetched in the same poll
C4_Witness ==
    /\ SensorPollOk
    /\ Len(sensor.mapping) = 2
    /\ sensor_io.response[1]["temperature"].code = -4001
    /\ sensor_io.response[1]["humidity"].code = 0
    /\ sensor.state_attrs["temperature"] = None
    /\ sensor.state_attrs["humidity"] = Some(1000)
    /\ sensor.available = TRUE

\* C5: a UI brightness converted to the device range and back is within one
\* device step of the original, the step taken on the 0..255 scale:
\* |back - b| <= step * 255 / (hi - lo + 1).
C5_RoundTripWithinOneStep ==
    conv.pc = "done" =>
        Abs(conv.ui[1] - conv.value) * (conv.valuerange[2] - conv.valuerange[1] + 1)
            <= conv.valuerange[3] * UIMax

\* C6: when async_turn_on sends a color temperature, the value sent is the
\* Kelvin conversion of the mired input clamped into [min, max] of the value
\* range: always inside the range, and unchanged when already inside it.
C6_ColorTempClamped ==
    (light_io.op = "async_turn_on" /\ light_io.kwargs.effect = None
        /\ light_io.kwargs.color_temp # None) =>
        LET kelvin == color_temperature_mired_to_kelvin(light_io.kwargs.color_temp[1])
            valuerange == light.ctrl_params.color_temperature.value_range
            sent == light_io.parameters.color_temperature
        IN  /\ sent # None
            /\ valuerange[1] <= sent[1] /\ sent[1] <= valuerange[2]
            /\ kelvin < valuerange[1] => sent[1] = valuerange[1]
            /\ kelvin > valuerange[2] => sent[1] = valuerange[2]
            /\ (valuerange[1] <= kelvin /\ kelvin <= valuerange[2]) => sent[1] = kelvin

\* 100 mired is 10000 K, above the range: its upper end is sent
C6_Witness ==
    /\ light_io.op = "async_turn_on"
    /\ light_io.kwargs.color_temp = Some(100)
    /\ light_io.parameters.color_temperature =
            Some(light.ctrl_params.color_temperature.value_range[2])

\* the code reported by a successful poll, when it is one of the table
ReportedCode == light_io.response[1].mode[1]

PollReportedTableCode ==
    /\ LightPollOk
    /\ light_io.response[1].mode # None
    /\ ReportedCode \in ModeCodes(light.ctrl_params.mode)

\* the first code of the table carrying the code's label
FirstCodeOfLabel(modes, code) ==
    \A i \in 1..Len(modes) :
        (modes[i][2] = ModeLabel(modes, code) /\ modes[i][1] # code) =>
            \E j \in 1..(i-1) : modes[j][1] = code

\* C7 as stated: label -> code -> label is the identity and code -> label ->
\* code is the identity for every code of the table.
C7_CodeLabelCodeIdentity ==
    PollReportedTableCode =>
        /\ light.effect = Some(ModeLabel(light.ctrl_params.mode, ReportedCode))
        /\ EffectCode(light.ctrl_params.mode, light.effect[1]) = ReportedCode

\* C7, amended: turning on with a label of the table sends a code whose label in
\* the table is that label (so no other label has it), and a poll reporting the
\* code sent for a label sets the effect to that label; a poll reporting a code
\* of the table sets the effect to its label, and turning on with that label
\* sends the same code back when the code is the first one carrying the label.
C7_EffectRoundTrip ==
    /\ (light_io.op = "async_turn_on" /\ light_io.kwargs.effect # None) =>
            /\ light_io.parameters.mode # None
            /\ light_io.parameters.mode[1] \in ModeCodes(light.ctrl_params.mode)
            /\ ModeLabel(light.ctrl_params.mode, light_io.parameters.mode[1])
                    = light_io.kwargs.effect[1]
    /\ PollReportedTableCode =>
            /\ light.effect = Some(ModeLabel(light.ctrl_params.mode, ReportedCode))
            /\ \A label \in effect_list(light.ctrl_params.mode) :
                    EffectCode(light.ctrl_params.mode, label) = ReportedCode
                        => light.effect = Some(label)
            /\ FirstCodeOfLabel(light.ctrl_params.mode, ReportedCode) =>
                    EffectCode(light.ctrl_params.mode, light.effect[1]) = ReportedCode

\* a poll reports code 1 of the table 0: Day, 1: Night: the effect is Night,
\* the label whose code is 1
C7_Witness ==
    /\ PollReportedTableCode
    /\ ReportedCode = 1
    /\ light.effect = Some("Night")
    /\ EffectCode(light.ctrl_params.mode, "Night") = 1

\* the designated property, or the first key of the mapping
PrimaryKey(s) ==
    IF s.sensor_property # None THEN s.sensor_property
    ELSE IF Len(s.mapping) > 0 THEN Some(s.mapping[1])
    ELSE None

\* C8: after every sensor poll the primary state is the cached attribute value
\* of the designated property, or, none being designated, of the first key of
\* the mapping.
C8_PrimaryStateFallback ==
    sensor_io.op = "async_update" =>
        sensor.state = (IF PrimaryKey(sensor) # None
                        THEN Get(sensor.state_attrs, PrimaryKey(sensor)[1])
                        ELSE None)

\* the response of a successful light poll lacks the key
Missing(key) == light_io.response[1][key] = None

\* C9 as stated: after a successful light poll, each of brightness, color
\* temperature and effect whose raw key is missing from the response is null.
C9_MissingKeyLeavesNull ==
    LightPollOk =>
        /\ Missing("brightness") => light.brightness = None
        /\ Missing("color_temperature") => light.color_temp = None
        /\ Missing("mode") => light.effect = None

\* C9, amended: a successful light poll re-derives brightness, color temperature
\* and effect from the raw values it reports; an effect whose key is missing (or
\* whose code is not in the table) is null after the poll, while a brightness or
\* color temperature whose key is missing keeps the value it had before the poll.
C9_MissingKeyKeepsOrResets ==
    [][ LightPollOk' =>
          LET response == light_io'.response[1]
              p == light.ctrl_params
          IN  /\ light'.brightness =
                    IF response.brightness # None
                    THEN Some(convert_value(response.brightness[1],
                                            p.brightness.value_range, FALSE))
                    ELSE light.brightness
              /\ light'.color_temp =
                    IF response.color_temperature # None
                    THEN Some(color_temperature_kelvin_to_mired(response.color_temperature[1]))
                    ELSE light.color_temp
              /\ light'.effect =
                    IF response.mode # None /\ response.mode[1] \in ModeCodes(p.mode)
                    THEN Some(ModeLabel(p.mode, response.mode[1]))
                    ELSE None ]_vars

\* a successful poll reported none of the three keys: brightness and color
\* temperature still hold the values of an earlier poll, the effect is null
C9_Witness ==
    /\ LightPollOk
    /\ Missing("brightness") /\ Missing("color_temperature") /\ Missing("mode")
    /\ light.brightness # None
    /\ light.color_temp # None
    /\ light.effect = None

\* C10: with update_instant false, a successful turn-on sets the on/off state
\* and the skip flag; the next poll then returns without a device call, changes
\* nothing but the skip flag, which it clears, so the poll after it fetches; a
\* failed turn-on changes neither the on/off state nor the skip flag; with
\* update_instant true no poll is skipped.
C10_SkipOnceAfterTurnOn ==
    [][ /\ (light_io'.op = "async_turn_on" /\ light_io'.outcome = "ok") =>
                light'.state = Some(TRUE) /\ light'.skip_update = TRUE
        /\ (light_io'.op = "async_turn_on" /\ light_io'.outcome = "failed") =>
                light'.state = light.state /\ light'.skip_update = light.skip_update
        /\ light_io'.op = "async_update" =>
                IF light.update_instant = FALSE /\ light.skip_update
                THEN /\ light_io'.outcome = "skipped"
                     /\ light_io'.call = None
                     /\ light' = [light EXCEPT !.skip_update = FALSE]
                ELSE /\ light_io'.outcome # "skipped"
                     /\ light_io'.call = Some("get_properties_for_mapping") ]_vars

\* the poll after a successful turn-on was skipped: the light is on, no device
\* call was made and the skip flag is down again
C10_Witness ==
    /\ light_io.op = "async_update"
    /\ light_io.outcome = "skipped"
    /\ light_io.call = None
    /\ light.update_instant = FALSE
    /\ light.state = Some(TRUE)
    /\ light.skip_update = FALSE

=============================================================================
